---- MODULE Spec2Model ----
(***************************************************************************)
(* A model of osrs-companion's data resolution layer (src/src/index.ts):   *)
(* the item mapping cache, the item resolver, the price tool, the WikiSync *)
(* player cache and the wiki tools.  Every tool invocation is a process    *)
(* of Procs; an await on a network request is a process position, and the  *)
(* response is consumed by the step that resumes the process.              *)
(***************************************************************************)
EXTENDS Integers, Sequences, FiniteSets, TLC

\* ---------------------------------------------------------------- bounds
\* At most MaxCalls tool invocations are started in a behaviour.
MaxCalls == 3
\* Item names and queries have at most MaxNameLen characters.
MaxNameLen == 2
\* A synced bank holds at most MaxBankItems items.
MaxBankItems == 2

\* The slots of the concurrent invocations the host runtime interleaves; an
\* invocation takes the lowest free slot.
Procs == {1, 2}

\* ------------------------------------------------------- program constants
\* const CACHE_TTL = 1000 * 60 * 60
CACHE_TTL == 1000 * 60 * 60
\* the literal 3600_000 of fetchWikiSyncPlayer
PLAYER_FRESH_MS == 3600000

\* The moments the model's clock takes, in milliseconds: the start, the
\* millisecond after it, and one TTL after the start.  Two of them are one
\* TTL apart and two are one millisecond less than a TTL apart.
Times == {0, 1, CACHE_TTL}

StatusCodes == {500}

\* ------------------------------------------------------------ player data
Usernames == {"Bob", "Zezima"}
\* usernames for which username.trim() is empty
BlankUsernames == {" "}

\* A JSON object of the WikiSync API: a function from some keys to values.
PayloadKeys == {"k1", "k2"}
EmptyObject == [k \in {} |-> 1]
\* The bodies the model's API answers with: the empty object and the objects of one key.
PlayerObjects == {EmptyObject} \cup {[x \in {k} |-> 1] : k \in PayloadKeys}

\* What a request to the WikiSync API ends in: a non-success status, a transport
\* exception (or a body that is not JSON), a JSON null, or a JSON object.
PlayerResponses ==
    {[kind |-> "status", status |-> s] : s \in StatusCodes}
    \cup {[kind |-> "error"], [kind |-> "null"]}
    \cup {[kind |-> "object", data |-> d] : d \in PlayerObjects}

NoResponse == [kind |-> "none"]

MsgStatus(s) == [text |-> "WikiSync API returned", status |-> s]
MsgNoData == [text |-> "No player data found. Ensure the username is correct and you have the WikiSync plugin installed in RuneLite."]
MsgError == [text |-> "Error: "]

\* Fault: the window taken in seconds, against a clock in milliseconds.
PlayerCacheHit_Seconds(c, username, forceRefresh, t) ==
    /\ username \in DOMAIN c
    /\ ~forceRefresh
    /\ t - c[username].fetchedAt < 3600

\* Fault: forceRefresh is not looked at.
PlayerCacheHit_IgnoreForce(c, username, forceRefresh, t) ==
    /\ username \in DOMAIN c
    /\ t - c[username].fetchedAt < PLAYER_FRESH_MS

\* `cache && !forceRefresh && now - cache.fetchedAt < 3600_000`, with cache the
\* entry of username in the cache `c`
PlayerCacheHit(c, username, forceRefresh, t) ==
    /\ username \in DOMAIN c
    /\ ~forceRefresh
    /\ t - c[username].fetchedAt < PLAYER_FRESH_MS

\* Fault: the new payload is merged into the entry's old payload.
PlayerCacheStore_Merge(c, username, data, t) ==
    [u \in DOMAIN c \cup {username} |->
        IF u = username
        THEN [data |-> [k \in DOMAIN data \cup (IF u \in DOMAIN c THEN DOMAIN c[u].data ELSE {}) |->
                          IF k \in DOMAIN data THEN data[k] ELSE c[u].data[k]],
              fetchedAt |-> t]
        ELSE c[u]]

\* Fault: an entry newer than the call's start is kept.
PlayerCacheStore_KeepNewer(c, username, data, t) ==
    IF username \in DOMAIN c /\ c[username].fetchedAt > t THEN c
    ELSE [u \in DOMAIN c \cup {username} |->
            IF u = username THEN [data |-> data, fetchedAt |-> t] ELSE c[u]]

\* `playerDataCache[username] = { data, fetchedAt: now }`
PlayerCacheStore(c, username, data, t) ==
    [u \in DOMAIN c \cup {username} |->
        IF u = username THEN [data |-> data, fetchedAt |-> t] ELSE c[u]]

\* What fetchWikiSyncPlayer returns for the response r of its request.
PlayerFetchResult(r) ==
    CASE r.kind = "status" -> [data |-> FALSE, message |-> MsgStatus(r.status)]
      [] r.kind = "error" -> [data |-> FALSE, message |-> MsgError]
      [] r.kind = "null" -> [data |-> FALSE, message |-> MsgNoData]
      [] r.kind = "object" ->
            IF DOMAIN r.data = {}
            THEN [data |-> FALSE, message |-> MsgNoData]
            ELSE [data |-> TRUE, payload |-> r.data]

\* Fault: the empty object is not told from a payload.
PlayerResponseCached_AnyObject(r) == r.kind = "object"

\* Whether the response is stored: a success response with a non-empty object.
PlayerResponseCached(r) == r.kind = "object" /\ DOMAIN r.data # {}

\* The player tool's content for a result of fetchWikiSyncPlayer.
PlayerToolContent(username, fr) ==
    IF fr.data
    THEN [kind |-> "playerData", username |-> username, json |-> fr.payload]
    ELSE [kind |-> "text", message |-> fr.message]

\* ------------------------------------------------------------ item names
\* A string is a sequence of characters; "A" is the upper case of "a".
Chars == {"a", "A", "b"}
Names == UNION {[1..k -> Chars] : k \in 0..MaxNameLen}

ToLowerChar(c) == IF c = "A" THEN "a" ELSE c
\* String.prototype.toLowerCase
toLowerCase(s) == [i \in 1..Len(s) |-> ToLowerChar(s[i])]
\* String.prototype.includes
includes(s, t) ==
    \E i \in 0..(Len(s) - Len(t)) : SubSeq(s, i + 1, i + Len(t)) = t

\* ---------------------------------------------------------- item mapping
\* The identifiers of the price API's items.
ItemIds == {1, 2}

\* `let itemMappingCache: WikiItemMapping | null = null`
NullMapping == [null |-> TRUE]
EmptyTable == [id \in {} |-> <<>>]
Cached(table) == [null |-> FALSE, table |-> table]

\* The tables over ItemIds.
Tables == UNION {[S -> Names] : S \in SUBSET ItemIds}

\* Bodies of the mapping endpoint: a list of {id, name}, or JSON that is no array.
NotAnArray == [isArray |-> FALSE]
ArrayOf(items) == [isArray |-> TRUE, items |-> items]
BodyTwoItems ==
    ArrayOf(<<[id |-> 1, name |-> <<"a", "b">>], [id |-> 2, name |-> <<"b">>]>>)
BodyRenamed ==
    ArrayOf(<<[id |-> 2, name |-> <<"b">>], [id |-> 2, name |-> <<"A">>]>>)
MappingBodies == {BodyTwoItems, BodyRenamed, NotAnArray}

\* What a request to the price API ends in.
FailedResponses ==
    {[kind |-> "status", status |-> s] : s \in StatusCodes} \cup {[kind |-> "error"]}
MappingResponses == FailedResponses \cup {[kind |-> "json", body |-> b] : b \in MappingBodies}

\* `if (!res.ok) throw new Error(...)` of pricesFetch and wikiFetch, and a
\* rejected fetch or res.json(): the caller's await throws.
FetchThrows(r) == r.kind \in {"status", "error"}

\* `mapping[String(item.id)] = item.name`
Put(m, id, name) == [k \in DOMAIN m \cup {id} |-> IF k = id THEN name ELSE m[k]]

\* The loop of getItemMapping over the items of the body.
RECURSIVE BuildFrom(_, _)
BuildFrom(items, m) ==
    IF items = <<>> THEN m
    ELSE BuildFrom(Tail(items), Put(m, Head(items).id, Head(items).name))

\* Fault: the fetched items are added to the cached table.
BuildMapping_Merge(old, body) ==
    IF body.isArray THEN BuildFrom(body.items, old) ELSE old

\* The table getItemMapping builds from the body of the fetch, `old` being
\* the table cached before (the empty table when null): built from {}.
BuildMapping(old, body) ==
    IF body.isArray THEN BuildFrom(body.items, EmptyTable) ELSE EmptyTable

\* `itemMappingExpiry = Date.now() + CACHE_TTL`
NewExpiry(t) == t + CACHE_TTL

\* Fault: the comparison is the wrong way round.
MappingCacheHit_Inverted(cache, expiry, t) == ~cache.null /\ t > expiry

\* `itemMappingCache && Date.now() < itemMappingExpiry`
MappingCacheHit(cache, expiry, t) == ~cache.null /\ t < expiry

\* Object.entries of a table with integer keys: in ascending key order.
RECURSIVE ObjectKeys(_)
ObjectKeys(S) ==
    IF S = {} THEN <<>>
    ELSE LET least == CHOOSE x \in S : \A y \in S : x <= y
         IN <<least>> \o ObjectKeys(S \ {least})

NotFound == [found |-> FALSE]
Found(id) == [found |-> TRUE, id |-> id]

\* `for (...) if (itemName.toLowerCase() === lower) return id`
RECURSIVE ScanExact(_, _, _)
ScanExact(m, keys, lower) ==
    IF keys = <<>> THEN NotFound
    ELSE IF toLowerCase(m[Head(keys)]) = lower THEN Found(Head(keys))
    ELSE ScanExact(m, Tail(keys), lower)

\* `for (...) if (itemName.toLowerCase().includes(lower)) return id`
RECURSIVE ScanIncludes(_, _, _)
ScanIncludes(m, keys, lower) ==
    IF keys = <<>> THEN NotFound
    ELSE IF includes(toLowerCase(m[Head(keys)]), lower) THEN Found(Head(keys))
    ELSE ScanIncludes(m, Tail(keys), lower)

\* Fault: one pass that takes the first entry matching either way.
findItemId_OnePass(m, name) ==
    ScanIncludes(m, ObjectKeys(DOMAIN m), toLowerCase(name))

\* findItemId on the table getItemMapping returned.
findItemId(m, name) ==
    LET lower == toLowerCase(name)
        exact == ScanExact(m, ObjectKeys(DOMAIN m), lower)
    IN IF exact.found THEN exact
       ELSE ScanIncludes(m, ObjectKeys(DOMAIN m), lower)

\* ------------------------------------------------------------ price data
\* A PriceData: high and low are optional, each a set of at most one number.
Amounts == {{}, {150}}
PriceEntries == [high : Amounts, low : Amounts]
NoPrice == [present |-> FALSE]
Priced(e) == [present |-> TRUE, high |-> e.high, low |-> e.low]
\* Bodies of the latest endpoint: data.data?.[itemId] is missing, or an entry.
LatestResponses ==
    FailedResponses \cup {[kind |-> "json", entry |-> NoPrice]}
    \cup {[kind |-> "json", entry |-> Priced(e)] : e \in PriceEntries}

\* `if (!price)` is not taken
HasPrice(entry) == entry.present

TextItemNotFound(it) == [kind |-> "text", message |-> [text |-> "Item not found", item |-> it]]
TextNoPrice(it) == [kind |-> "text", message |-> [text |-> "No price data available", item |-> it]]
\* The lines of the price tool: the header and url with `name`, a buy line when
\* high is set and a sell line when low is set.
PriceContent(name, entry) ==
    [kind |-> "price", name |-> name, buy |-> entry.high, sell |-> entry.low]
\* `mapping[itemId] ?? item`
DisplayName(m, id, it) == IF id \in DOMAIN m THEN m[id] ELSE it

NoSnapshot == [taken |-> FALSE]
NoFill == [by |-> 0, askedAt |-> 0, body |-> NotAnArray]
Snapshot(cache, expiry) == [taken |-> TRUE, cache |-> cache, expiry |-> expiry]

\* ------------------------------------------------------ player sync store
\* Characters of the usernames given to the sync tools: a lower-case letter,
\* its upper case, and a character outside [a-z0-9_-].
SyncChars == {"a", "A", " "}
SyncUsernames == UNION {[1..k -> SyncChars] : k \in 0..MaxNameLen}

\* `.replace(/[^a-z0-9_-]/g, "_")`, one character
SanitizeChar(c) == IF c \in {"a", "b", "_", "-"} THEN c ELSE "_"
\* `username.toLowerCase().replace(/[^a-z0-9_-]/g, "_") + ".json"`
SyncFileName(u) ==
    [i \in 1..Len(u) |-> SanitizeChar(toLowerCase(u)[i])] \o <<".json">>

\* The top-level keys of a PlayerSyncData document that the handlers test.
Sections == {"player", "skills", "bank", "inventory", "equipment", "quests",
             "achievementDiaries", "combatAchievements"}

\* A SyncItem: names over Chars, a quantity.
BankItemNames == {<<"A">>, <<"a", "b">>}
Quantities == {-1, 5}
SyncItems == [name : BankItemNames, quantity : Quantities]
TabIndexes == {0, 1}

\* What a file of the sync directory holds: something readFile fails on, text
\* JSON.parse fails on, the JSON null, or a document with some of the sections
\* and the tabs of its bank.
Unreadable == [kind |-> "unreadable"]
Malformed == [kind |-> "malformed"]
JsonNull == [kind |-> "json", isNull |-> TRUE]
Document(sections, tabs) ==
    [kind |-> "json", isNull |-> FALSE, sections |-> sections, tabs |-> tabs]
SampleTabs ==
    << [tabIndex |-> 0, items |-> <<[name |-> <<"A">>, quantity |-> 5]>>],
       [tabIndex |-> 1, items |-> <<[name |-> <<"a", "b">>, quantity |-> -1]>>] >>
SyncDocuments ==
    {Document({}, <<>>), Document({"player"}, <<>>), Document(Sections, SampleTabs)}
FileContents == {Unreadable, Malformed, JsonNull} \cup SyncDocuments

\* The sync directory: not readable (or absent), or its entries with what each
\* holds.
NoDirectory == [readable |-> FALSE]
Directory(files) == [readable |-> TRUE, files |-> files]
NoFiles == [f \in {} |-> Unreadable]
\* The names of the directory's entries: the files of the usernames and one
\* entry without the .json suffix.
SyncEntryNames == {SyncFileName(u) : u \in SyncUsernames} \cup {<<"a">>}
\* The directories of the model: none, an empty one, and those of one entry.
SyncDirectories ==
    {NoDirectory, Directory(NoFiles)}
    \cup {Directory([f \in {n} |-> c]) : n \in SyncEntryNames, c \in FileContents}

\* What getPlayerSyncData returns: null, or the parsed document.
Missing == [missing |-> TRUE]
Loaded(d) == [missing |-> FALSE, doc |-> d]

\* Fault: only a failing readFile is caught; text that does not parse is taken
\* for an empty document.
getPlayerSyncData_ParseUncaught(dir, u) ==
    LET f == SyncFileName(u) IN
    IF ~dir.readable \/ f \notin DOMAIN dir.files THEN Missing
    ELSE IF dir.files[f].kind = "unreadable" THEN Missing
    ELSE IF dir.files[f].kind = "malformed" THEN Loaded(Document({}, <<>>))
    ELSE IF dir.files[f].isNull THEN Missing
    ELSE Loaded(dir.files[f])

\* getPlayerSyncData: `try { readFile; JSON.parse } catch { return null }`;
\* the JSON null parses to null.
getPlayerSyncData(dir, u) ==
    LET f == SyncFileName(u) IN
    IF ~dir.readable \/ f \notin DOMAIN dir.files THEN Missing
    ELSE IF dir.files[f].kind \in {"unreadable", "malformed"} THEN Missing
    ELSE IF dir.files[f].isNull THEN Missing
    ELSE Loaded(dir.files[f])

\* `f.endsWith(".json")` and `f.replace(/\.json$/, "")`
EndsWithJson(f) == Len(f) > 0 /\ f[Len(f)] = ".json"
StripJson(f) == SubSeq(f, 1, Len(f) - 1)
\* listSyncedPlayers: the entries with the suffix, stripped of it; [] when
\* readdir fails.  The model's directories hold at most one entry.
listSyncedPlayers(dir) ==
    IF ~dir.readable THEN <<>>
    ELSE LET json == {f \in DOMAIN dir.files : EndsWithJson(f)}
         IN IF json = {} THEN <<>> ELSE <<StripJson(CHOOSE f \in json : TRUE)>>

\* `t.items.map((item) => ({ ...item, tab: t.tabIndex }))`
TagItems(t) ==
    [i \in 1..Len(t.items) |->
        [name |-> t.items[i].name, quantity |-> t.items[i].quantity, tab |-> t.tabIndex]]
\* `data.bank.tabs.flatMap(...)`
RECURSIVE Flatten(_)
Flatten(tabs) ==
    IF tabs = <<>> THEN <<>> ELSE TagItems(Head(tabs)) \o Flatten(Tail(tabs))

\* An optional argument is the empty set when it is not supplied and the set
\* of its value when it is.
\* `if (search) allItems = allItems.filter(name.toLowerCase().includes(term))`:
\* the empty string is not a search.
FilterSearch(items, search) ==
    IF search = {} \/ search = {<<>>} THEN items
    ELSE LET term == toLowerCase(CHOOSE x \in search : TRUE)
             Test(it) == includes(toLowerCase(it.name), term)
         IN SelectSeq(items, Test)
\* `if (tab !== undefined) allItems = allItems.filter((item) => item.tab === tab)`
FilterTab(items, tab) ==
    IF tab = {} THEN items
    ELSE LET Test(it) == it.tab \in tab IN SelectSeq(items, Test)
\* `if (minQuantity !== undefined) ... item.quantity >= minQuantity`
FilterMinQuantity(items, minQuantity) ==
    IF minQuantity = {} THEN items
    ELSE LET Test(it) == \A q \in minQuantity : it.quantity >= q
         IN SelectSeq(items, Test)

\* Fault: `if (tab)` and `if (minQuantity)`: a supplied 0 is ignored.
BankFilter_ZeroIgnored(tabs, args) ==
    FilterMinQuantity(
        FilterTab(FilterSearch(Flatten(tabs), args.search), args.tab \ {0}),
        args.minQuantity \ {0})

\* get_my_bank: the items it lists.
BankFilter(tabs, args) ==
    FilterMinQuantity(FilterTab(FilterSearch(Flatten(tabs), args.search), args.tab),
                      args.minQuantity)

\* The arguments of get_my_bank besides the username.
SearchTerms == {<<>>, <<"A">>, <<"b">>}
Optional(S) == {{}} \cup {{x} : x \in S}
BankArgs == [search : Optional(SearchTerms), tab : Optional(TabIndexes),
             minQuantity : Optional({0, 5})]
NoArgs == [search |-> {}, tab |-> {}, minQuantity |-> {}]

\* The tools that read a player's file, each with the section it asks for.
SyncTools == {"get_my_profile", "get_my_bank", "get_my_stats", "get_my_quests",
              "get_my_equipment", "get_my_inventory", "get_my_diaries",
              "get_my_combat_achievements"}
SectionOf(tool) ==
    CASE tool = "get_my_profile" -> "player"
      [] tool = "get_my_bank" -> "bank"
      [] tool = "get_my_stats" -> "skills"
      [] tool = "get_my_quests" -> "quests"
      [] tool = "get_my_equipment" -> "equipment"
      [] tool = "get_my_inventory" -> "inventory"
      [] tool = "get_my_diaries" -> "achievementDiaries"
      [] tool = "get_my_combat_achievements" -> "combatAchievements"

\* `No synced data found for "${username}".`; get_my_profile adds the players
\* listSyncedPlayers found and a hint.
TextNoSynced(u) ==
    [kind |-> "text", message |-> [text |-> "No synced data found", username |-> u]]
TextNoSyncedProfile(u, players) ==
    [kind |-> "text",
     message |-> [text |-> "No synced data found", username |-> u, available |-> players]]
\* `No bank data synced for ...`, `No skill data synced for ...`, ...
TextNoSection(tool, u) ==
    [kind |-> "text", message |-> [text |-> "No data synced", section |-> SectionOf(tool),
                                   username |-> u]]
TextNoMatchingItems(u) ==
    [kind |-> "text", message |-> [text |-> "No matching items found", username |-> u]]
\* What a tool other than get_my_profile answers for a document.
SyncAnswer(tool, u, args, doc) ==
    IF SectionOf(tool) \notin doc.sections THEN TextNoSection(tool, u)
    ELSE IF tool = "get_my_bank"
    THEN IF BankFilter(doc.tabs, args) = <<>> THEN TextNoMatchingItems(u)
         ELSE [kind |-> "bank", username |-> u, items |-> BankFilter(doc.tabs, args)]
    ELSE [kind |-> "answer", tool |-> tool, username |-> u]

\* ------------------------------------------------------------------- state
VARIABLES
    now,              \* Date.now()
    calls,            \* tool invocations started so far
    playerDataCache,  \* username -> {data, fetchedAt}, for the cached usernames
    lastStore,        \* history: the username and the moment of the last store
    pc,               \* each invocation's position
    op,               \* the tool each invocation runs
    username,         \* player tool: its username argument
    forceRefresh,     \* player tool: its forceRefresh argument
    callNow,          \* fetchWikiSyncPlayer's `const now`
    resp,             \* the response the invocation consumed last
    fetchResult,      \* what fetchWikiSyncPlayer returned
    result,           \* what the tool handler returned
    seen,             \* history: the cache entry of username when fetchWikiSyncPlayer was called
    sent,             \* history: requests the fetchWikiSyncPlayer call has issued
    itemMappingCache, \* the cached id -> name table, or null
    itemMappingExpiry,
    filled,           \* history: the call and the body that filled the cache last
    item,             \* price tool: its item argument
    itemId,           \* price tool: what findItemId returned
    price,            \* price tool: data.data?.[itemId]
    mapping,          \* the table the invocation's last getItemMapping call returned
    seenMapping,      \* history: the cache and expiry when that call was made
    lookupAt,         \* history: when that call was made
    lookups,          \* history: getItemMapping calls of the invocation
    fetches,          \* history: mapping fetches the invocation issued
    syncDir,          \* the sync directory and its files
    syncUser,         \* sync tools: the username argument
    syncArgs,         \* get_my_bank: search, tab, minQuantity
    syncData          \* sync tools: what getPlayerSyncData returned

clock == <<now>>
playerCache == <<playerDataCache, lastStore>>
mappingCache == <<itemMappingCache, itemMappingExpiry, filled>>
playerLocals == <<username, forceRefresh, callNow, fetchResult, seen, sent>>
priceLocals == <<item, itemId, price, mapping, seenMapping, lookupAt, lookups, fetches>>
syncLocals == <<syncUser, syncArgs, syncData>>
syncStore == <<syncDir, syncLocals>>

vars == <<now, calls, playerDataCache, lastStore, pc, op, username, forceRefresh,
          callNow, resp, fetchResult, result, seen, sent, itemMappingCache,
          itemMappingExpiry, filled, item, itemId, price, mapping, seenMapping, lookupAt,
          lookups, fetches, syncDir, syncUser, syncArgs, syncData>>

NoStore == [username |-> "", at |-> 0]
NoResult == [kind |-> "none"]
NoFetchResult == [data |-> FALSE, message |-> [text |-> "none"]]

\* No invocation has started.
InitInvocations ==
    /\ now = 0
    /\ calls = 0
    /\ pc = [p \in Procs |-> "idle"]
    /\ op = [p \in Procs |-> "none"]
    /\ username = [p \in Procs |-> ""]
    /\ forceRefresh = [p \in Procs |-> FALSE]
    /\ callNow = [p \in Procs |-> 0]
    /\ resp = [p \in Procs |-> NoResponse]
    /\ fetchResult = [p \in Procs |-> NoFetchResult]
    /\ result = [p \in Procs |-> NoResult]
    /\ seen = [p \in Procs |-> [u \in {} |-> 0]]
    /\ sent = [p \in Procs |-> 0]
    /\ item = [p \in Procs |-> <<>>]
    /\ itemId = [p \in Procs |-> NotFound]
    /\ price = [p \in Procs |-> NoPrice]
    /\ mapping = [p \in Procs |-> EmptyTable]
    /\ seenMapping = [p \in Procs |-> NoSnapshot]
    /\ lookupAt = [p \in Procs |-> 0]
    /\ lookups = [p \in Procs |-> 0]
    /\ fetches = [p \in Procs |-> 0]
    /\ syncUser = [p \in Procs |-> <<>>]
    /\ syncArgs = [p \in Procs |-> NoArgs]
    /\ syncData = [p \in Procs |-> Missing]

\* The process has started: both caches are empty.
Init ==
    /\ InitInvocations
    /\ playerDataCache = [u \in {} |-> 0]
    /\ lastStore = NoStore
    /\ itemMappingCache = NullMapping
    /\ itemMappingExpiry = 0
    /\ filled = NoFill
    /\ syncDir = NoDirectory

\* The body that lists the entries of a table, in key order.
BodyOfTable(t) ==
    LET keys == ObjectKeys(DOMAIN t)
    IN ArrayOf([i \in 1..Len(keys) |-> [id |-> keys[i], name |-> t[keys[i]]]])

\* The process right after a first mapping fetch, made at time 0, was answered
\* with the body of any one table over ItemIds.
InitResolve ==
    /\ InitInvocations
    /\ playerDataCache = [u \in {} |-> 0]
    /\ lastStore = NoStore
    /\ \E t \in Tables :
        /\ itemMappingCache = Cached(BuildMapping(EmptyTable, BodyOfTable(t)))
        /\ filled = [by |-> 1, askedAt |-> 0, body |-> BodyOfTable(t)]
    /\ itemMappingExpiry = NewExpiry(0)
    /\ syncDir = NoDirectory

\* Time passes between any two steps.
Tick ==
    /\ \E t \in Times : t > now /\ now' = t
    /\ UNCHANGED <<calls, pc, op, resp, result>>
    /\ UNCHANGED <<playerCache, mappingCache, playerLocals, priceLocals, syncStore>>

\* ------------------------------------------------------------- player tool
\* The invocation starts: locals are those of a fresh call.
Begin(p, tool) ==
    /\ pc[p] = "idle"
    /\ \A q \in Procs : q < p => pc[q] # "idle"
    /\ calls < MaxCalls
    /\ calls' = calls + 1
    /\ op' = [op EXCEPT ![p] = tool]
    /\ resp' = [resp EXCEPT ![p] = NoResponse]

\* player handler with a blank username: returns before fetchWikiSyncPlayer.
PlayerBlank(p, u) ==
    /\ Begin(p, "player")
    /\ u \in BlankUsernames
    /\ \E f \in BOOLEAN : forceRefresh' = [forceRefresh EXCEPT ![p] = f]
    /\ username' = [username EXCEPT ![p] = u]
    /\ pc' = [pc EXCEPT ![p] = "done"]
    /\ result' = [result EXCEPT ![p] =
                    [kind |-> "text", message |-> [text |-> "Please provide a RuneLite username."]]]
    /\ UNCHANGED <<clock, syncStore, playerCache, mappingCache, priceLocals, callNow, fetchResult, seen, sent>>

\* fetchWikiSyncPlayer, cache hit: returns the cached data with no request.
PlayerHit(p, u, f) ==
    /\ Begin(p, "player")
    /\ u \notin BlankUsernames
    /\ PlayerCacheHit(playerDataCache, u, f, now)
    /\ username' = [username EXCEPT ![p] = u]
    /\ forceRefresh' = [forceRefresh EXCEPT ![p] = f]
    /\ callNow' = [callNow EXCEPT ![p] = now]
    /\ seen' = [seen EXCEPT ![p] = [x \in {u} \cap DOMAIN playerDataCache |-> playerDataCache[x]]]
    /\ sent' = [sent EXCEPT ![p] = 0]
    /\ LET fr == [data |-> TRUE, payload |-> playerDataCache[u].data] IN
        /\ fetchResult' = [fetchResult EXCEPT ![p] = fr]
        /\ result' = [result EXCEPT ![p] = PlayerToolContent(u, fr)]
    /\ pc' = [pc EXCEPT ![p] = "done"]
    /\ UNCHANGED <<clock, syncStore, playerCache, mappingCache, priceLocals>>

\* fetchWikiSyncPlayer, otherwise: issues the request and awaits it.
PlayerMiss(p, u, f) ==
    /\ Begin(p, "player")
    /\ u \notin BlankUsernames
    /\ ~PlayerCacheHit(playerDataCache, u, f, now)
    /\ username' = [username EXCEPT ![p] = u]
    /\ forceRefresh' = [forceRefresh EXCEPT ![p] = f]
    /\ callNow' = [callNow EXCEPT ![p] = now]
    /\ seen' = [seen EXCEPT ![p] = [x \in {u} \cap DOMAIN playerDataCache |-> playerDataCache[x]]]
    /\ sent' = [sent EXCEPT ![p] = 1]
    /\ pc' = [pc EXCEPT ![p] = "awaitPlayer"]
    /\ UNCHANGED <<clock, syncStore, playerCache, mappingCache, priceLocals, fetchResult, result>>

\* The request of fetchWikiSyncPlayer ends in r; the handler returns.
PlayerResponse(p, r) ==
    /\ pc[p] = "awaitPlayer"
    /\ resp' = [resp EXCEPT ![p] = r]
    /\ playerDataCache' =
          IF PlayerResponseCached(r)
          THEN PlayerCacheStore(playerDataCache, username[p], r.data, callNow[p])
          ELSE playerDataCache
    /\ lastStore' =
          IF PlayerResponseCached(r)
          THEN [username |-> username[p], at |-> now]
          ELSE lastStore
    /\ fetchResult' = [fetchResult EXCEPT ![p] = PlayerFetchResult(r)]
    /\ result' = [result EXCEPT ![p] = PlayerToolContent(username[p], PlayerFetchResult(r))]
    /\ pc' = [pc EXCEPT ![p] = "done"]
    /\ UNCHANGED <<clock, syncStore, calls, op, username, forceRefresh, callNow, seen, sent>>
    /\ UNCHANGED <<mappingCache, priceLocals>>

\* The host takes the handler's value (or its exception); the process is free
\* for the next invocation.
Return(p) ==
    /\ pc[p] \in {"done", "threw"}
    /\ pc' = [pc EXCEPT ![p] = "idle"]
    /\ op' = [op EXCEPT ![p] = "none"]
    /\ username' = [username EXCEPT ![p] = ""]
    /\ forceRefresh' = [forceRefresh EXCEPT ![p] = FALSE]
    /\ callNow' = [callNow EXCEPT ![p] = 0]
    /\ resp' = [resp EXCEPT ![p] = NoResponse]
    /\ fetchResult' = [fetchResult EXCEPT ![p] = NoFetchResult]
    /\ result' = [result EXCEPT ![p] = NoResult]
    /\ seen' = [seen EXCEPT ![p] = [u \in {} |-> 0]]
    /\ sent' = [sent EXCEPT ![p] = 0]
    /\ item' = [item EXCEPT ![p] = <<>>]
    /\ itemId' = [itemId EXCEPT ![p] = NotFound]
    /\ price' = [price EXCEPT ![p] = NoPrice]
    /\ mapping' = [mapping EXCEPT ![p] = EmptyTable]
    /\ seenMapping' = [seenMapping EXCEPT ![p] = NoSnapshot]
    /\ lookupAt' = [lookupAt EXCEPT ![p] = 0]
    /\ lookups' = [lookups EXCEPT ![p] = 0]
    /\ fetches' = [fetches EXCEPT ![p] = 0]
    /\ syncUser' = [syncUser EXCEPT ![p] = <<>>]
    /\ syncArgs' = [syncArgs EXCEPT ![p] = NoArgs]
    /\ syncData' = [syncData EXCEPT ![p] = Missing]
    /\ UNCHANGED <<clock, syncDir, calls, playerCache, mappingCache>>

\* -------------------------------------------------------------- price tool
\* A getItemMapping call of p starts: the history of the call.
Lookup(p) ==
    /\ lookups' = [lookups EXCEPT ![p] = @ + 1]
    /\ lookupAt' = [lookupAt EXCEPT ![p] = now]
    /\ seenMapping' = [seenMapping EXCEPT ![p] = Snapshot(itemMappingCache, itemMappingExpiry)]

\* The handler after findItemId: `if (!itemId) return ...`, else the latest
\* request is issued.
Resolve(p, m, it) ==
    /\ mapping' = [mapping EXCEPT ![p] = m]
    /\ itemId' = [itemId EXCEPT ![p] = findItemId(m, it)]
    /\ IF findItemId(m, it).found
       THEN /\ pc' = [pc EXCEPT ![p] = "awaitLatest"]
            /\ UNCHANGED result
       ELSE /\ pc' = [pc EXCEPT ![p] = "done"]
            /\ result' = [result EXCEPT ![p] = TextItemNotFound(it)]

\* price handler, getItemMapping of findItemId hits the cache.
PriceHit(p, it) ==
    /\ Begin(p, "price")
    /\ MappingCacheHit(itemMappingCache, itemMappingExpiry, now)
    /\ item' = [item EXCEPT ![p] = it]
    /\ Lookup(p)
    /\ Resolve(p, itemMappingCache.table, it)
    /\ UNCHANGED <<clock, syncStore, playerCache, mappingCache, playerLocals, price, fetches>>

\* price handler, getItemMapping of findItemId fetches the mapping.
PriceMiss(p, it) ==
    /\ Begin(p, "price")
    /\ ~MappingCacheHit(itemMappingCache, itemMappingExpiry, now)
    /\ item' = [item EXCEPT ![p] = it]
    /\ Lookup(p)
    /\ fetches' = [fetches EXCEPT ![p] = @ + 1]
    /\ pc' = [pc EXCEPT ![p] = "awaitMapping"]
    /\ UNCHANGED <<clock, syncStore, playerCache, mappingCache, playerLocals, price, mapping,
                   itemId, result>>

\* Fault: a failed request drops the cached table.
PricesFetchThrows_DropsCache(p, r) ==
    /\ pc[p] \in {"awaitMapping", "awaitLatest", "awaitMapping2"}
    /\ FetchThrows(r)
    /\ resp' = [resp EXCEPT ![p] = r]
    /\ pc' = [pc EXCEPT ![p] = "threw"]
    /\ itemMappingCache' = NullMapping
    /\ UNCHANGED <<clock, syncStore, calls, op, result, playerCache, itemMappingExpiry,
                   filled, playerLocals, priceLocals>>

\* A request of the price API fails: pricesFetch throws, and nothing between
\* it and the host catches.
PricesFetchThrows(p, r) ==
    /\ pc[p] \in {"awaitMapping", "awaitLatest", "awaitMapping2"}
    /\ FetchThrows(r)
    /\ resp' = [resp EXCEPT ![p] = r]
    /\ pc' = [pc EXCEPT ![p] = "threw"]
    /\ UNCHANGED <<clock, syncStore, calls, op, result, playerCache, mappingCache, playerLocals,
                   priceLocals>>

\* Fault: a table another call stored while this one was waiting is kept.
StoreMapping_KeepFresh(p, body) ==
    IF MappingCacheHit(itemMappingCache, itemMappingExpiry, now)
    THEN /\ UNCHANGED <<itemMappingCache, itemMappingExpiry>>
         /\ filled' = [by |-> p, askedAt |-> lookupAt[p], body |-> body]
    ELSE /\ itemMappingCache' = Cached(BuildMapping(EmptyTable, body))
         /\ itemMappingExpiry' = NewExpiry(now)
         /\ filled' = [by |-> p, askedAt |-> lookupAt[p], body |-> body]

\* Fault: the expiry is assigned only when no table was cached, so a new table
\* is paired with the expiry of the old one.
StoreMapping_StaleExpiry(p, body) ==
    /\ itemMappingCache' = Cached(BuildMapping(EmptyTable, body))
    /\ itemMappingExpiry' =
          IF itemMappingCache.null THEN NewExpiry(now) ELSE itemMappingExpiry
    /\ filled' = [by |-> p, askedAt |-> lookupAt[p], body |-> body]

\* getItemMapping stores the table of the body and its expiry.
StoreMapping(p, body) ==
    /\ itemMappingCache' =
          Cached(BuildMapping(IF itemMappingCache.null THEN EmptyTable
                              ELSE itemMappingCache.table, body))
    /\ itemMappingExpiry' = NewExpiry(now)
    /\ filled' = [by |-> p, askedAt |-> lookupAt[p], body |-> body]

\* The mapping fetch of findItemId succeeds; findItemId scans the new table.
MappingLoaded(p, r) ==
    /\ pc[p] = "awaitMapping"
    /\ ~FetchThrows(r)
    /\ resp' = [resp EXCEPT ![p] = r]
    /\ StoreMapping(p, r.body)
    /\ Resolve(p, itemMappingCache'.table, item[p])
    /\ UNCHANGED <<clock, syncStore, calls, op, playerCache, playerLocals, item, price,
                   seenMapping, lookupAt, lookups, fetches>>

\* The latest request succeeds without an entry for the item.
LatestNoPrice(p, r) ==
    /\ pc[p] = "awaitLatest"
    /\ ~FetchThrows(r)
    /\ ~HasPrice(r.entry)
    /\ resp' = [resp EXCEPT ![p] = r]
    /\ price' = [price EXCEPT ![p] = r.entry]
    /\ result' = [result EXCEPT ![p] = TextNoPrice(item[p])]
    /\ pc' = [pc EXCEPT ![p] = "done"]
    /\ UNCHANGED <<clock, syncStore, calls, op, playerCache, mappingCache, playerLocals, item,
                   itemId, mapping, seenMapping, lookupAt, lookups, fetches>>

\* The latest request succeeds with an entry; the second getItemMapping hits.
LatestPriceHit(p, r) ==
    /\ pc[p] = "awaitLatest"
    /\ ~FetchThrows(r)
    /\ HasPrice(r.entry)
    /\ MappingCacheHit(itemMappingCache, itemMappingExpiry, now)
    /\ resp' = [resp EXCEPT ![p] = r]
    /\ price' = [price EXCEPT ![p] = r.entry]
    /\ Lookup(p)
    /\ mapping' = [mapping EXCEPT ![p] = itemMappingCache.table]
    /\ result' = [result EXCEPT ![p] =
                    PriceContent(DisplayName(itemMappingCache.table, itemId[p].id, item[p]),
                                 r.entry)]
    /\ pc' = [pc EXCEPT ![p] = "done"]
    /\ UNCHANGED <<clock, syncStore, calls, op, playerCache, mappingCache, playerLocals, item,
                   itemId, fetches>>

\* The latest request succeeds with an entry; the second getItemMapping fetches.
LatestPriceMiss(p, r) ==
    /\ pc[p] = "awaitLatest"
    /\ ~FetchThrows(r)
    /\ HasPrice(r.entry)
    /\ ~MappingCacheHit(itemMappingCache, itemMappingExpiry, now)
    /\ resp' = [resp EXCEPT ![p] = r]
    /\ price' = [price EXCEPT ![p] = r.entry]
    /\ Lookup(p)
    /\ fetches' = [fetches EXCEPT ![p] = @ + 1]
    /\ pc' = [pc EXCEPT ![p] = "awaitMapping2"]
    /\ UNCHANGED <<clock, syncStore, calls, op, result, playerCache, mappingCache, playerLocals,
                   item, itemId, mapping>>

\* The mapping fetch of the second getItemMapping succeeds; the handler returns.
Mapping2Loaded(p, r) ==
    /\ pc[p] = "awaitMapping2"
    /\ ~FetchThrows(r)
    /\ resp' = [resp EXCEPT ![p] = r]
    /\ StoreMapping(p, r.body)
    /\ mapping' = [mapping EXCEPT ![p] = itemMappingCache'.table]
    /\ result' = [result EXCEPT ![p] =
                    PriceContent(DisplayName(itemMappingCache'.table, itemId[p].id, item[p]),
                                 price[p])]
    /\ pc' = [pc EXCEPT ![p] = "done"]
    /\ UNCHANGED <<clock, syncStore, calls, op, playerCache, playerLocals, item, itemId, price,
                   seenMapping, lookupAt, lookups, fetches>>

\* The items the model asks the price of while the cache is exercised.
QueryItems == {<<"a">>, <<"b", "b">>}
\* The latest responses taken there.
SomeLatestResponses ==
    FailedResponses
    \cup {[kind |-> "json", entry |-> NoPrice],
          [kind |-> "json", entry |-> Priced([high |-> {150}, low |-> {}])]}

NextMapping ==
    \/ Tick
    \/ \E p \in Procs, it \in QueryItems : PriceHit(p, it)
    \/ \E p \in Procs, it \in QueryItems : PriceMiss(p, it)
    \/ \E p \in Procs, r \in FailedResponses : PricesFetchThrows(p, r)
    \/ \E p \in Procs, r \in MappingResponses : MappingLoaded(p, r)
    \/ \E p \in Procs, r \in SomeLatestResponses : LatestNoPrice(p, r)
    \/ \E p \in Procs, r \in SomeLatestResponses : LatestPriceHit(p, r)
    \/ \E p \in Procs, r \in SomeLatestResponses : LatestPriceMiss(p, r)
    \/ \E p \in Procs, r \in MappingResponses : Mapping2Loaded(p, r)
    \/ \E p \in Procs : Return(p)

SpecMapping == Init /\ [][NextMapping]_vars

\* -------------------------------------------------------------- wiki tools
\* What a request of wikiFetch ends in, for search: the number of results; for
\* summary: no page, a missing page, a page without extract, a page with one.
SearchResponses == FailedResponses \cup {[kind |-> "json", results |-> n] : n \in 0..2}
PageResponses ==
    FailedResponses
    \cup {[kind |-> "json", page |-> k] : k \in {"none", "missing", "blank", "extract"}}

\* search or summary handler: issues its wikiFetch request.
WikiBegin(p, tool) ==
    /\ tool \in {"search", "summary"}
    /\ Begin(p, tool)
    /\ pc' = [pc EXCEPT ![p] = "awaitWiki"]
    /\ UNCHANGED <<clock, syncStore, result, playerCache, mappingCache, playerLocals, priceLocals>>

\* `if (!res.ok) throw new Error(...)` of wikiFetch, or a rejected fetch:
\* neither handler catches.
WikiFetchThrows(p, r) ==
    /\ pc[p] = "awaitWiki"
    /\ FetchThrows(r)
    /\ resp' = [resp EXCEPT ![p] = r]
    /\ pc' = [pc EXCEPT ![p] = "threw"]
    /\ UNCHANGED <<clock, syncStore, calls, op, result, playerCache, mappingCache, playerLocals,
                   priceLocals>>

\* search handler, after its request.
SearchResponse(p, r) ==
    /\ pc[p] = "awaitWiki" /\ op[p] = "search"
    /\ ~FetchThrows(r)
    /\ resp' = [resp EXCEPT ![p] = r]
    /\ result' = [result EXCEPT ![p] =
          IF r.results = 0
          THEN [kind |-> "text", message |-> [text |-> "No results found"]]
          ELSE [kind |-> "results", count |-> r.results]]
    /\ pc' = [pc EXCEPT ![p] = "done"]
    /\ UNCHANGED <<clock, syncStore, calls, op, playerCache, mappingCache, playerLocals, priceLocals>>

\* summary handler, after its request.
SummaryResponse(p, r) ==
    /\ pc[p] = "awaitWiki" /\ op[p] = "summary"
    /\ ~FetchThrows(r)
    /\ resp' = [resp EXCEPT ![p] = r]
    /\ result' = [result EXCEPT ![p] =
          CASE r.page \in {"none", "missing"} ->
                  [kind |-> "text", message |-> [text |-> "Page not found"]]
            [] r.page = "blank" ->
                  [kind |-> "text", message |-> [text |-> "No summary available"]]
            [] r.page = "extract" -> [kind |-> "summary"]]
    /\ pc' = [pc EXCEPT ![p] = "done"]
    /\ UNCHANGED <<clock, syncStore, calls, op, playerCache, mappingCache, playerLocals, priceLocals>>

NextPlayer ==
    \/ Tick
    \/ \E p \in Procs, u \in BlankUsernames : PlayerBlank(p, u)
    \/ \E p \in Procs, u \in Usernames, f \in BOOLEAN : PlayerHit(p, u, f)
    \/ \E p \in Procs, u \in Usernames, f \in BOOLEAN : PlayerMiss(p, u, f)
    \/ \E p \in Procs, r \in PlayerResponses : PlayerResponse(p, r)
    \/ \E p \in Procs : Return(p)

SpecPlayer == Init /\ [][NextPlayer]_vars

\* Item resolution against every table: one price invocation, with any name,
\* while the table is cached.
NextResolve == \E it \in Names : PriceHit(1, it)

SpecResolve == InitResolve /\ [][NextResolve]_vars

\* The tools run one invocation after the other, with every response of the
\* remote APIs.
NextTools ==
    \/ Tick
    \/ \E tool \in {"search", "summary"} : WikiBegin(1, tool)
    \/ \E r \in FailedResponses : WikiFetchThrows(1, r)
    \/ \E r \in SearchResponses : SearchResponse(1, r)
    \/ \E r \in PageResponses : SummaryResponse(1, r)
    \/ \E it \in QueryItems : PriceHit(1, it)
    \/ \E it \in QueryItems : PriceMiss(1, it)
    \/ \E r \in FailedResponses : PricesFetchThrows(1, r)
    \/ \E r \in MappingResponses : MappingLoaded(1, r)
    \/ \E r \in LatestResponses : LatestNoPrice(1, r)
    \/ \E r \in LatestResponses : LatestPriceHit(1, r)
    \/ \E r \in LatestResponses : LatestPriceMiss(1, r)
    \/ \E r \in MappingResponses : Mapping2Loaded(1, r)
    \/ \E u \in BlankUsernames : PlayerBlank(1, u)
    \/ \E u \in Usernames, f \in BOOLEAN : PlayerHit(1, u, f)
    \/ \E u \in Usernames, f \in BOOLEAN : PlayerMiss(1, u, f)
    \/ \E r \in PlayerResponses : PlayerResponse(1, r)
    \/ Return(1)

SpecTools == Init /\ [][NextTools]_vars

\* -------------------------------------------------------------- sync tools
\* A tool that reads a player's file is invoked: the handler awaits
\* getPlayerSyncData(username).
SyncBegin(p, tool, u, args) ==
    /\ tool \in SyncTools
    /\ Begin(p, tool)
    /\ tool # "get_my_bank" => args = NoArgs
    /\ syncUser' = [syncUser EXCEPT ![p] = u]
    /\ syncArgs' = [syncArgs EXCEPT ![p] = args]
    /\ pc' = [pc EXCEPT ![p] = "awaitSync"]
    /\ UNCHANGED <<clock, syncDir, syncData, result, playerCache, mappingCache,
                   playerLocals, priceLocals>>

\* getPlayerSyncData returned null: `if (!data) return ...` of every handler
\* but get_my_profile.
SyncMissing(p) ==
    /\ pc[p] = "awaitSync" /\ op[p] # "get_my_profile"
    /\ getPlayerSyncData(syncDir, syncUser[p]).missing
    /\ syncData' = [syncData EXCEPT ![p] = getPlayerSyncData(syncDir, syncUser[p])]
    /\ result' = [result EXCEPT ![p] = TextNoSynced(syncUser[p])]
    /\ pc' = [pc EXCEPT ![p] = "done"]
    /\ UNCHANGED <<clock, syncDir, syncUser, syncArgs, calls, op, resp, playerCache,
                   mappingCache, playerLocals, priceLocals>>

\* getPlayerSyncData returned a document: the handler answers from it.
SyncAnswered(p) ==
    /\ pc[p] = "awaitSync" /\ op[p] # "get_my_profile"
    /\ ~getPlayerSyncData(syncDir, syncUser[p]).missing
    /\ syncData' = [syncData EXCEPT ![p] = getPlayerSyncData(syncDir, syncUser[p])]
    /\ result' = [result EXCEPT ![p] =
                    SyncAnswer(op[p], syncUser[p], syncArgs[p],
                               getPlayerSyncData(syncDir, syncUser[p]).doc)]
    /\ pc' = [pc EXCEPT ![p] = "done"]
    /\ UNCHANGED <<clock, syncDir, syncUser, syncArgs, calls, op, resp, playerCache,
                   mappingCache, playerLocals, priceLocals>>

\* get_my_profile, getPlayerSyncData returned null: the handler awaits
\* listSyncedPlayers.
ProfileMissing(p) ==
    /\ pc[p] = "awaitSync" /\ op[p] = "get_my_profile"
    /\ getPlayerSyncData(syncDir, syncUser[p]).missing
    /\ syncData' = [syncData EXCEPT ![p] = getPlayerSyncData(syncDir, syncUser[p])]
    /\ pc' = [pc EXCEPT ![p] = "awaitList"]
    /\ UNCHANGED <<clock, syncDir, syncUser, syncArgs, calls, op, resp, result,
                   playerCache, mappingCache, playerLocals, priceLocals>>

\* get_my_profile, after listSyncedPlayers: the no-data text with the players.
ProfileListed(p) ==
    /\ pc[p] = "awaitList" /\ op[p] = "get_my_profile"
    /\ result' = [result EXCEPT ![p] =
                    TextNoSyncedProfile(syncUser[p], listSyncedPlayers(syncDir))]
    /\ pc' = [pc EXCEPT ![p] = "done"]
    /\ UNCHANGED <<clock, syncStore, calls, op, resp, playerCache, mappingCache,
                   playerLocals, priceLocals>>

\* get_my_profile, a document without `player`: `data.player.username` is a
\* TypeError, and the handler does not catch.
ProfileThrows(p) ==
    /\ pc[p] = "awaitSync" /\ op[p] = "get_my_profile"
    /\ ~getPlayerSyncData(syncDir, syncUser[p]).missing
    /\ "player" \notin getPlayerSyncData(syncDir, syncUser[p]).doc.sections
    /\ syncData' = [syncData EXCEPT ![p] = getPlayerSyncData(syncDir, syncUser[p])]
    /\ pc' = [pc EXCEPT ![p] = "threw"]
    /\ UNCHANGED <<clock, syncDir, syncUser, syncArgs, calls, op, resp, result,
                   playerCache, mappingCache, playerLocals, priceLocals>>

\* get_my_profile, a document with `player`: the summary of its sections.
ProfileAnswered(p) ==
    /\ pc[p] = "awaitSync" /\ op[p] = "get_my_profile"
    /\ ~getPlayerSyncData(syncDir, syncUser[p]).missing
    /\ "player" \in getPlayerSyncData(syncDir, syncUser[p]).doc.sections
    /\ syncData' = [syncData EXCEPT ![p] = getPlayerSyncData(syncDir, syncUser[p])]
    /\ result' = [result EXCEPT ![p] =
                    [kind |-> "profile",
                     sections |-> getPlayerSyncData(syncDir, syncUser[p]).doc.sections]]
    /\ pc' = [pc EXCEPT ![p] = "done"]
    /\ UNCHANGED <<clock, syncDir, syncUser, syncArgs, calls, op, resp, playerCache,
                   mappingCache, playerLocals, priceLocals>>

\* list_synced_players is invoked: the handler awaits listSyncedPlayers.
ListBegin(p) ==
    /\ Begin(p, "list_synced_players")
    /\ pc' = [pc EXCEPT ![p] = "awaitList"]
    /\ UNCHANGED <<clock, syncStore, result, playerCache, mappingCache, playerLocals,
                   priceLocals>>

\* list_synced_players, after listSyncedPlayers.
ListDone(p) ==
    /\ pc[p] = "awaitList" /\ op[p] = "list_synced_players"
    /\ result' = [result EXCEPT ![p] =
          IF listSyncedPlayers(syncDir) = <<>>
          THEN [kind |-> "text", message |-> [text |-> "No synced players found"]]
          ELSE [kind |-> "players", players |-> listSyncedPlayers(syncDir)]]
    /\ pc' = [pc EXCEPT ![p] = "done"]
    /\ UNCHANGED <<clock, syncStore, calls, op, resp, playerCache, mappingCache,
                   playerLocals, priceLocals>>

\* Both caches are empty.
InitCaches ==
    /\ playerDataCache = [u \in {} |-> 0]
    /\ lastStore = NoStore
    /\ itemMappingCache = NullMapping
    /\ itemMappingExpiry = 0
    /\ filled = NoFill

\* The process has started, with any of the model's sync directories.
InitSync ==
    /\ InitInvocations
    /\ InitCaches
    /\ syncDir \in SyncDirectories

\* The get_my_bank arguments taken while the store is exercised.
SomeBankArgs == {NoArgs, [search |-> {<<"b">>}, tab |-> {1}, minQuantity |-> {}]}

\* The sync tools, one invocation after the other, over each directory.
NextSync ==
    \/ \E tool \in SyncTools, u \in SyncUsernames, args \in SomeBankArgs :
          SyncBegin(1, tool, u, args)
    \/ SyncMissing(1)
    \/ SyncAnswered(1)
    \/ ProfileMissing(1)
    \/ ProfileListed(1)
    \/ ProfileThrows(1)
    \/ ProfileAnswered(1)
    \/ ListBegin(1)
    \/ ListDone(1)
    \/ Return(1)

SpecSync == InitSync /\ [][NextSync]_vars

\* The banks of at most MaxBankItems items: up to two tabs, in either order of
\* their indexes or with the same index, each with a list of items.
ItemLists == UNION {[1..k -> SyncItems] : k \in 0..MaxBankItems}
TabOrders == {<<>>, <<0>>, <<1>>, <<0, 1>>, <<1, 0>>, <<0, 0>>}
TotalItems(lists) ==
    IF Len(lists) = 0 THEN 0
    ELSE IF Len(lists) = 1 THEN Len(lists[1])
    ELSE Len(lists[1]) + Len(lists[2])
BankTabLists ==
    UNION {{[i \in 1..Len(o) |-> [tabIndex |-> o[i], items |-> l[i]]] :
                l \in {x \in [1..Len(o) -> ItemLists] : TotalItems(x) <= MaxBankItems}} :
           o \in TabOrders}

\* The file of username "a" holds a document with any of those banks.
InitBank ==
    /\ InitInvocations
    /\ InitCaches
    /\ \E tabs \in BankTabLists :
          syncDir = Directory([f \in {SyncFileName(<<"a">>)} |-> Document(Sections, tabs)])

\* One get_my_bank invocation with every combination of the filters.
NextBank ==
    \/ \E args \in BankArgs : SyncBegin(1, "get_my_bank", <<"a">>, args)
    \/ SyncAnswered(1)

SpecBank == InitBank /\ [][NextBank]_vars

\* ---------------------------------------------------------- the two caches
\* The responses taken while price and player invocations interleave.
CacheMappingResponses == {[kind |-> "json", body |-> b] : b \in {BodyTwoItems, BodyRenamed}}
CacheLatestResponses ==
    {[kind |-> "json", entry |-> NoPrice],
     [kind |-> "json", entry |-> Priced([high |-> {150}, low |-> {}])]}
CachePlayerResponses ==
    {[kind |-> "status", status |-> s] : s \in StatusCodes}
    \cup {[kind |-> "object", data |-> d] : d \in PlayerObjects \ {EmptyObject}}

\* price and player invocations, interleaved, on both caches.
NextCaches ==
    \/ Tick
    \/ \E p \in Procs : PriceHit(p, <<"a">>)
    \/ \E p \in Procs : PriceMiss(p, <<"a">>)
    \/ \E p \in Procs, r \in FailedResponses : PricesFetchThrows(p, r)
    \/ \E p \in Procs, r \in CacheMappingResponses : MappingLoaded(p, r)
    \/ \E p \in Procs, r \in CacheLatestResponses : LatestNoPrice(p, r)
    \/ \E p \in Procs, r \in CacheLatestResponses : LatestPriceHit(p, r)
    \/ \E p \in Procs, r \in CacheLatestResponses : LatestPriceMiss(p, r)
    \/ \E p \in Procs, r \in CacheMappingResponses : Mapping2Loaded(p, r)
    \/ \E p \in Procs, f \in BOOLEAN : PlayerHit(p, "Bob", f)
    \/ \E p \in Procs, f \in BOOLEAN : PlayerMiss(p, "Bob", f)
    \/ \E p \in Procs, r \in CachePlayerResponses : PlayerResponse(p, r)
    \/ \E p \in Procs : Return(p)

SpecCaches == Init /\ [][NextCaches]_vars

\* =========================================================== player cache
\* A fetchWikiSyncPlayer call of p is under way or has returned.
InPlayerFetch(p) ==
    /\ op[p] = "player"
    /\ pc[p] \in {"awaitPlayer", "done"}
    /\ username[p] \in Usernames

\* The entry p's call found was fetched less than one hour before the call.
SawFresh(p) ==
    /\ username[p] \in DOMAIN seen[p]
    /\ callNow[p] - seen[p][username[p]].fetchedAt < 60 * 60 * 1000

\* C1: a call fetch(username, false) made less than one hour after the fetch
\* that filled the username's entry issues no network request and returns the
\* cached payload; a non-forced call that finds no such entry issues exactly
\* one request.  A first call that fills the cache and a second call within the
\* window therefore make one network call in total.
C1_SecondCallServedFromCache ==
    \A p \in Procs :
        (InPlayerFetch(p) /\ ~forceRefresh[p]) =>
            IF SawFresh(p)
            THEN /\ pc[p] = "done"
                 /\ sent[p] = 0
                 /\ resp[p] = NoResponse
                 /\ fetchResult[p] = [data |-> TRUE, payload |-> seen[p][username[p]].data]
            ELSE sent[p] = 1

\* A non-forced call made in the last millisecond of the window of an entry
\* has returned the cached payload without a request.
C1_Witness ==
    \E p \in Procs :
        /\ InPlayerFetch(p) /\ pc[p] = "done" /\ ~forceRefresh[p]
        /\ username[p] \in DOMAIN seen[p]
        /\ callNow[p] - seen[p][username[p]].fetchedAt = 60 * 60 * 1000 - 1
        /\ sent[p] = 0
        /\ fetchResult[p].data

\* C2: every call fetch(username, true) issues a network request, whatever the
\* username's cache entry is and however recently it was fetched; what it
\* returns comes from that request's response.
C2_ForceRefreshAlwaysRequests ==
    \A p \in Procs :
        (InPlayerFetch(p) /\ forceRefresh[p]) =>
            /\ sent[p] = 1
            /\ pc[p] = "done" => resp[p] \in PlayerResponses

\* A forced call made while the entry was fresh has issued its request and
\* returned.
C2_Witness ==
    \E p \in Procs :
        /\ InPlayerFetch(p) /\ pc[p] = "done" /\ forceRefresh[p]
        /\ SawFresh(p)
        /\ callNow[p] = seen[p][username[p]].fetchedAt
        /\ sent[p] = 1

\* The responses C5 is about.
IsFailure(r) == r.kind \in {"status", "error"}
IsEmptyObject(r) == r.kind = "object" /\ r.data = EmptyObject

\* C5: when the request of fetch(username, _) ends in a non-success status, a
\* transport exception or an empty-object body, the call returns (it does not
\* throw) a result with no data and a message, the message of the empty object
\* is none of the failure messages, and the step leaves the whole cache, the
\* username's entry included, as it was.
C5_FailureReturnsMessageAndKeepsCache ==
    [][\A p \in Procs :
        (pc[p] = "awaitPlayer" /\ pc'[p] # "awaitPlayer"
            /\ (IsFailure(resp'[p]) \/ IsEmptyObject(resp'[p]))) =>
          /\ pc'[p] = "done"
          /\ ~fetchResult'[p].data
          /\ DOMAIN fetchResult'[p] = {"data", "message"}
          /\ fetchResult'[p].message.text # ""
          /\ result'[p] = [kind |-> "text", message |-> fetchResult'[p].message]
          /\ IsEmptyObject(resp'[p]) =>
                \A q \in Procs :
                    (pc[q] = "done" /\ IsFailure(resp[q])) =>
                        fetchResult[q].message # fetchResult'[p].message
          /\ playerDataCache' = playerDataCache]_vars

\* A forced call for a cached username got the empty object: it returned the
\* no-data message and the entry it found is still the cached one, while
\* another call has returned a failure message.
C5_Witness ==
    \E p \in Procs, q \in Procs :
        /\ InPlayerFetch(p) /\ pc[p] = "done" /\ IsEmptyObject(resp[p])
        /\ ~fetchResult[p].data
        /\ username[p] \in DOMAIN seen[p]
        /\ username[p] \in DOMAIN playerDataCache
        /\ playerDataCache[username[p]] = seen[p][username[p]]
        /\ pc[q] = "done" /\ IsFailure(resp[q])

\* C6 as stated: a non-forced call for the username of the last non-empty
\* success response, made less than one hour after that response was processed,
\* is served from the cache.
C6_ServedWithinHourOfResponse ==
    [][\A p \in Procs, u \in Usernames :
        (pc[p] = "idle" /\ pc'[p] # "idle" /\ op'[p] = "player"
            /\ username'[p] = u /\ ~forceRefresh'[p]
            /\ lastStore.username = u
            /\ now - lastStore.at < 60 * 60 * 1000) =>
          /\ pc'[p] = "done"
          /\ sent'[p] = 0
          /\ fetchResult'[p] = [data |-> TRUE, payload |-> playerDataCache[u].data]]_vars

\* C6, amended: every non-empty success response replaces the username's entry
\* by the response's payload alone and the start time of the call that issued
\* the request, leaving every other entry alone; a non-forced call made less
\* than one hour after that start time, while the entry is the cached one, is
\* served from the cache with that payload.
C6_SuccessReplacesEntry ==
    [][\A p \in Procs, u \in Usernames :
        /\ (pc[p] = "awaitPlayer" /\ pc'[p] # "awaitPlayer" /\ username[p] = u
              /\ resp'[p].kind = "object" /\ resp'[p].data # EmptyObject) =>
            /\ DOMAIN playerDataCache' = DOMAIN playerDataCache \cup {u}
            /\ playerDataCache'[u] = [data |-> resp'[p].data, fetchedAt |-> callNow[p]]
            /\ \A v \in DOMAIN playerDataCache \ {u} : playerDataCache'[v] = playerDataCache[v]
            /\ fetchResult'[p] = [data |-> TRUE, payload |-> resp'[p].data]
        /\ (pc[p] = "idle" /\ pc'[p] # "idle" /\ op'[p] = "player"
              /\ username'[p] = u /\ ~forceRefresh'[p]
              /\ u \in DOMAIN playerDataCache
              /\ now - playerDataCache[u].fetchedAt < 60 * 60 * 1000) =>
            /\ pc'[p] = "done"
            /\ sent'[p] = 0
            /\ fetchResult'[p] = [data |-> TRUE, payload |-> playerDataCache[u].data]]_vars

\* An entry with one payload was replaced by a response with another payload,
\* and a later non-forced call was served the new payload.
C6_Witness ==
    \E p \in Procs, q \in Procs :
        /\ p # q
        /\ InPlayerFetch(p) /\ pc[p] = "done" /\ resp[p].kind = "object"
        /\ username[p] \in DOMAIN seen[p]
        /\ seen[p][username[p]].data # resp[p].data
        /\ resp[p].data # EmptyObject
        /\ InPlayerFetch(q) /\ pc[q] = "done" /\ ~forceRefresh[q] /\ sent[q] = 0
        /\ username[q] = username[p]
        /\ callNow[q] > callNow[p]
        /\ fetchResult[q] = [data |-> TRUE, payload |-> resp[p].data]

\* ============================================================ mapping cache
\* p makes a getItemMapping call in this step.
StartsLookup(p) == lookups'[p] = lookups[p] + 1
\* The mapping fetch of p is answered with a body in this step.
LoadsMapping(p) ==
    /\ pc[p] \in {"awaitMapping", "awaitMapping2"}
    /\ pc'[p] \notin {pc[p], "threw"}
InFlight(p) == pc[p] \in {"awaitMapping", "awaitMapping2"}

\* The table a body lists: the identifiers of its items, each with the name of
\* the last item that carries it; no entry when the body is no array.
Listed(body, id) ==
    body.isArray /\ \E i \in 1..Len(body.items) : body.items[i].id = id
LastName(body, id) ==
    LET last == CHOOSE i \in 1..Len(body.items) :
                    /\ body.items[i].id = id
                    /\ \A j \in (i + 1)..Len(body.items) : body.items[j].id # id
    IN body.items[last].name
IsTableOf(t, body) ==
    /\ \A id \in ItemIds : id \in DOMAIN t <=> Listed(body, id)
    /\ \A id \in DOMAIN t : t[id] = LastName(body, id)

\* C3: a getItemMapping call made while a table is cached, before its expiry
\* or less than one hour after the call that fetched it was made, issues no
\* mapping fetch, returns the cached table and leaves the cache alone; no call
\* issues more than one fetch.  The call that fetched the table and a call
\* within one hour of it therefore issue one mapping fetch in total.
C3_LookupWithinTtlReusesTable ==
    [][\A p \in Procs :
        /\ (StartsLookup(p) /\ ~itemMappingCache.null
              /\ (now < itemMappingExpiry \/ now - filled.askedAt < 60 * 60 * 1000)) =>
            /\ fetches'[p] = fetches[p]
            /\ ~InFlight(p)'
            /\ mapping'[p] = itemMappingCache.table
            /\ itemMappingCache' = itemMappingCache
            /\ itemMappingExpiry' = itemMappingExpiry
        /\ fetches'[p] # fetches[p] =>
            \/ StartsLookup(p) /\ fetches'[p] = fetches[p] + 1
            \/ pc'[p] = "idle" /\ fetches'[p] = 0]_vars

\* A call made in the last millisecond before the expiry of a table with
\* entries returned that table without a fetch.
C3_Witness ==
    \E p \in Procs :
        /\ op[p] = "price" /\ fetches[p] = 0 /\ lookups[p] = 1
        /\ seenMapping[p].taken /\ ~seenMapping[p].cache.null
        /\ lookupAt[p] = seenMapping[p].expiry - 1
        /\ mapping[p] = seenMapping[p].cache.table
        /\ DOMAIN mapping[p] # {}

\* C4: a getItemMapping call made when the cached table has expired issues
\* exactly one mapping fetch; when the fetch is answered with a body, the cache
\* holds exactly the table the body lists (no entry of the old table is kept
\* unless the body lists it) and the expiry is one hour after that moment.
C4_ExpiredLookupRefetchesAndReplaces ==
    [][\A p \in Procs :
        /\ (StartsLookup(p) /\ ~itemMappingCache.null /\ now >= itemMappingExpiry) =>
            /\ fetches'[p] = fetches[p] + 1
            /\ InFlight(p)'
            /\ itemMappingCache' = itemMappingCache
        /\ LoadsMapping(p) =>
            /\ resp'[p].kind = "json"
            /\ ~itemMappingCache'.null
            /\ IsTableOf(itemMappingCache'.table, resp'[p].body)
            /\ itemMappingExpiry' = now + 60 * 60 * 1000
            /\ mapping'[p] = itemMappingCache'.table
            /\ fetches'[p] = fetches[p]]_vars

\* A call found an expired table with an entry that the fetched body does not
\* list: the cache holds the new table, without that entry, and a later expiry.
C4_Witness ==
    \E p \in Procs :
        /\ op[p] = "price" /\ fetches[p] = 1 /\ ~InFlight(p)
        /\ seenMapping[p].taken /\ ~seenMapping[p].cache.null
        /\ lookupAt[p] >= seenMapping[p].expiry
        /\ resp[p].kind = "json" /\ "body" \in DOMAIN resp[p]
        /\ ~itemMappingCache.null
        /\ itemMappingCache.table = mapping[p]
        /\ \E id \in DOMAIN seenMapping[p].cache.table : id \notin DOMAIN itemMappingCache.table
        /\ itemMappingExpiry > seenMapping[p].expiry

\* C7: a getItemMapping call made while the cache is empty or expired and the
\* fetch of another call is in flight issues its own fetch, so that both are
\* in flight; and the cache always holds the table of the body that was
\* processed last, with the expiry set then.
C7_OverlappingLookupsEachFetchLastWins ==
    /\ [][\A p \in Procs, q \in Procs :
            (StartsLookup(p) /\ q # p /\ InFlight(q)
                /\ (itemMappingCache.null \/ now >= itemMappingExpiry)) =>
              /\ fetches'[p] = fetches[p] + 1
              /\ InFlight(p)' /\ InFlight(q)']_vars
    /\ [][\A p \in Procs : LoadsMapping(p) => filled'.by = p /\ filled'.body = resp'[p].body]_vars
    /\ [](~itemMappingCache.null => IsTableOf(itemMappingCache.table, filled.body))

\* Two calls that both found the cache empty each fetched; their bodies list
\* different tables and the cache holds the table of the one processed last.
C7_Witness ==
    \E p \in Procs, q \in Procs :
        /\ p # q
        /\ seenMapping[p].taken /\ seenMapping[p].cache.null
        /\ seenMapping[q].taken /\ seenMapping[q].cache.null
        /\ fetches[p] = 1 /\ fetches[q] = 1
        /\ pc[p] \in {"awaitLatest", "done"} /\ pc[q] \in {"awaitLatest", "done"}
        /\ lookups[p] = 1 /\ lookups[q] = 1
        /\ mapping[p] # mapping[q]
        /\ filled.by = q
        /\ itemMappingCache.table = mapping[q]

\* ============================================================ item resolver
\* s and t are the same string but for the case of their characters.
SameIgnoringCase(s, t) ==
    /\ Len(s) = Len(t)
    /\ \A i \in 1..Len(s) : s[i] = t[i] \/ {s[i], t[i]} = {"a", "A"}
\* Some stretch of s is t but for the case.
ContainsIgnoringCase(s, t) ==
    \E i \in 1..(Len(s) + 1), j \in 0..Len(s) : SameIgnoringCase(SubSeq(s, i, j), t)
Least(S) == CHOOSE x \in S : \A y \in S : x <= y

\* C8: findItemId returns the first entry, in the table's key order, whose
\* name is the given name but for the case; when no entry is, the first entry
\* whose name contains the name but for the case; and not-found when no entry
\* does.  An exact match after a containing entry wins.
C8_ExactThenSubstringInKeyOrder ==
    \A p \in Procs :
        (op[p] = "price" /\ pc[p] \in {"awaitLatest", "awaitMapping2", "done"}) =>
            LET m == mapping[p]
                exact == {id \in DOMAIN m : SameIgnoringCase(m[id], item[p])}
                containing == {id \in DOMAIN m : ContainsIgnoringCase(m[id], item[p])}
            IN itemId[p] = IF exact # {} THEN Found(Least(exact))
                           ELSE IF containing # {} THEN Found(Least(containing))
                           ELSE NotFound

\* The first entry contains the name and is longer, the second is the name in
\* another case: the second is returned.
C8_Witness ==
    \E p \in Procs :
        /\ op[p] = "price" /\ pc[p] = "awaitLatest"
        /\ DOMAIN mapping[p] = {1, 2}
        /\ ContainsIgnoringCase(mapping[p][1], item[p])
        /\ Len(mapping[p][1]) > Len(item[p])
        /\ SameIgnoringCase(mapping[p][2], item[p])
        /\ mapping[p][2] # item[p]
        /\ itemId[p] = Found(2)

\* ============================================================= price lookup
\* C9: the price tool answers "no price data" when the latest response has no
\* entry for the identifier and when the entry has neither high nor low; a
\* price result is given only with high or low present.
C9_NoPriceWithoutHighOrLow ==
    \A p \in Procs :
        (op[p] = "price" /\ pc[p] = "done" /\ itemId[p].found) =>
            IF price[p].present /\ (price[p].high # {} \/ price[p].low # {})
            THEN result[p].kind = "price"
            ELSE result[p] = TextNoPrice(item[p])

\* =================================================================== errors
\* C10: every invocation of every tool ends by returning a value; in
\* particular, no invocation whose request was answered with a non-success
\* status ends with an exception.
C10_EveryInvocationReturns ==
    \A p \in Procs : resp[p].kind = "status" => pc[p] # "threw"

\* ======================================================== player sync store
\* The file of the username, under its sanitized name, is absent (or the
\* directory is), cannot be read, or does not parse as JSON.
FileAbsent(dir, u) == ~dir.readable \/ SyncFileName(u) \notin DOMAIN dir.files
FileUnreadable(dir, u) == ~FileAbsent(dir, u) /\ dir.files[SyncFileName(u)] = Unreadable
FileMalformed(dir, u) == ~FileAbsent(dir, u) /\ dir.files[SyncFileName(u)] = Malformed
ReadFails(dir, u) == FileAbsent(dir, u) \/ FileUnreadable(dir, u) \/ FileMalformed(dir, u)
IsNoSyncedData(r, u) ==
    /\ r.kind = "text"
    /\ r.message.text = "No synced data found"
    /\ r.message.username = u

\* C11: when the file of the username is absent, unreadable or not JSON,
\* getPlayerSyncData returns Missing without throwing, the same in the three
\* cases, and the tool built on it (profile, bank, stats, quests, equipment,
\* inventory, diaries, combat achievements) returns the no-synced-data result
\* for that username.
C11_ReadFailureIsMissing ==
    /\ [][\A p \in Procs :
            (pc[p] = "awaitSync" /\ pc'[p] # "awaitSync" /\ ReadFails(syncDir, syncUser[p])) =>
              /\ pc'[p] # "threw"
              /\ syncData'[p] = Missing
              /\ IF op[p] = "get_my_profile"
                 THEN pc'[p] = "awaitList"
                 ELSE pc'[p] = "done" /\ result'[p] = TextNoSynced(syncUser[p])]_vars
    /\ [][\A p \in Procs :
            (pc[p] = "awaitList" /\ op[p] = "get_my_profile" /\ pc'[p] # "awaitList") =>
              /\ pc'[p] = "done"
              /\ syncData[p] = Missing
              /\ IsNoSyncedData(result'[p], syncUser[p])]_vars

\* get_my_bank was asked for a username with an upper-case letter and a
\* character that is replaced; the file of its sanitized name does not parse,
\* and the tool returned the no-synced-data result.
C11_Witness ==
    \E p \in Procs :
        /\ pc[p] = "done" /\ op[p] = "get_my_bank"
        /\ syncUser[p] = <<"A", " ">>
        /\ FileMalformed(syncDir, syncUser[p])
        /\ <<"a", "_", ".json">> \in DOMAIN syncDir.files
        /\ syncData[p] = Missing
        /\ IsNoSyncedData(result[p], syncUser[p])

\* ============================================================== bank filter
\* The positions (tab, item) of a bank's items, and their tab-then-item order.
ItemPositions(tabs) ==
    UNION {{<<i, j>> : j \in 1..Len(tabs[i].items)} : i \in 1..Len(tabs)}
Before(a, b) == a[1] < b[1] \/ (a[1] = b[1] /\ a[2] < b[2])
\* The positions of S in tab-then-item order.
InOrder(S) ==
    CHOOSE seq \in [1..Cardinality(S) -> S] :
        \A m \in 1..Cardinality(S), n \in 1..Cardinality(S) : m < n => Before(seq[m], seq[n])
\* The item at a position passes every supplied predicate.
Passes(tabs, pos, args) ==
    LET it == tabs[pos[1]].items[pos[2]] IN
    /\ \A term \in args.search : ContainsIgnoringCase(it.name, term)
    /\ \A t \in args.tab : tabs[pos[1]].tabIndex = t
    /\ \A q \in args.minQuantity : it.quantity >= q
\* The items of the bank that pass, tagged with their tab, in that order.
ExpectedItems(tabs, args) ==
    LET seq == InOrder({pos \in ItemPositions(tabs) : Passes(tabs, pos, args)})
    IN [n \in 1..Len(seq) |->
            [name |-> tabs[seq[n][1]].items[seq[n][2]].name,
             quantity |-> tabs[seq[n][1]].items[seq[n][2]].quantity,
             tab |-> tabs[seq[n][1]].tabIndex]]
\* The six orders of applying the three filters give the same list.
AnyOrderSame(tabs, args) ==
    LET all == Flatten(tabs)
        S(x) == FilterSearch(x, args.search)
        T(x) == FilterTab(x, args.tab)
        Q(x) == FilterMinQuantity(x, args.minQuantity)
    IN {S(T(Q(all))), S(Q(T(all))), T(S(Q(all))), T(Q(S(all))), Q(S(T(all))), Q(T(S(all)))}
         = {ExpectedItems(tabs, args)}

\* C12: for every bank and every combination of search, tab and minQuantity,
\* get_my_bank lists exactly the items of all tabs, in tab-then-item order,
\* whose name contains the search whatever the case, whose tab has the index
\* tab and whose quantity is at least minQuantity, for those of the three that
\* are supplied, a tab or minQuantity of 0 included; and the filters applied in
\* any order give that list.
C12_BankFilterIsConjunction ==
    \A p \in Procs :
        (op[p] = "get_my_bank" /\ pc[p] = "done" /\ ~syncData[p].missing
            /\ "bank" \in syncData[p].doc.sections) =>
          LET tabs == syncData[p].doc.tabs
              expected == ExpectedItems(tabs, syncArgs[p])
          IN /\ result[p] = IF expected = <<>> THEN TextNoMatchingItems(syncUser[p])
                            ELSE [kind |-> "bank", username |-> syncUser[p], items |-> expected]
             /\ AnyOrderSame(tabs, syncArgs[p])

\* A bank with an item in tab 1 before an item in tab 0, asked with a search,
\* tab 0 and minQuantity 0: only the item of tab 0 is listed.
C12_Witness ==
    \E p \in Procs :
        /\ op[p] = "get_my_bank" /\ pc[p] = "done" /\ ~syncData[p].missing
        /\ syncArgs[p] = [search |-> {<<"A">>}, tab |-> {0}, minQuantity |-> {0}]
        /\ Len(syncData[p].doc.tabs) = 2
        /\ syncData[p].doc.tabs[1].tabIndex = 1
        /\ Len(syncData[p].doc.tabs[1].items) = 1
        /\ syncData[p].doc.tabs[1].items[1].quantity = 5
        /\ Len(syncData[p].doc.tabs[2].items) = 1
        /\ result[p].kind = "bank"
        /\ result[p].items = <<[name |-> <<"a", "b">>, quantity |-> 5, tab |-> 0]>>

\* ======================================================= snapshot atomicity
\* The entry of u in the player cache, or none.
EntryOf(c, u) == IF u \in DOMAIN c THEN {c[u]} ELSE {}

\* C13: in every interleaving, the cached table and its expiry change only
\* together, in the one step that processes a mapping response, to the whole
\* table of that response and the expiry taken then; the cached table is always
\* the whole table of one response; a player entry changes only to the whole
\* payload of one response with the timestamp of the call that fetched it; and
\* a reader that is served from a cache gets the table, or the payload, cached
\* at that moment.
C13_SnapshotsReplacedWhole ==
    /\ [][(itemMappingCache' # itemMappingCache \/ itemMappingExpiry' # itemMappingExpiry) =>
            \E p \in Procs :
                /\ LoadsMapping(p)
                /\ ~itemMappingCache'.null
                /\ IsTableOf(itemMappingCache'.table, resp'[p].body)
                /\ itemMappingExpiry' = now + 60 * 60 * 1000]_vars
    /\ [](~itemMappingCache.null => IsTableOf(itemMappingCache.table, filled.body))
    /\ [][\A p \in Procs :
            (StartsLookup(p) /\ ~InFlight(p)') =>
              /\ ~itemMappingCache.null
              /\ mapping'[p] = itemMappingCache.table]_vars
    /\ [][\A u \in Usernames :
            EntryOf(playerDataCache', u) # EntryOf(playerDataCache, u) =>
              \E p \in Procs :
                /\ pc[p] = "awaitPlayer" /\ pc'[p] = "done" /\ username[p] = u
                /\ resp'[p].kind = "object"
                /\ playerDataCache'[u] = [data |-> resp'[p].data, fetchedAt |-> callNow[p]]]_vars
    /\ [][\A p \in Procs :
            (pc[p] = "idle" /\ pc'[p] = "done" /\ op'[p] = "player"
                /\ username'[p] \in Usernames) =>
              /\ username'[p] \in DOMAIN playerDataCache
              /\ fetchResult'[p] =
                    [data |-> TRUE, payload |-> playerDataCache[username'[p]].data]]_vars

\* One invocation found a cached table that had expired and replaced it; the
\* other then read the cache and got the new table with the new expiry.
C13_Witness ==
    \E p \in Procs, q \in Procs :
        /\ p # q
        /\ seenMapping[q].taken /\ ~seenMapping[q].cache.null
        /\ fetches[q] = 1 /\ ~InFlight(q) /\ filled.by = q
        /\ lookups[p] = 1 /\ fetches[p] = 0
        /\ seenMapping[p].taken
        /\ seenMapping[p].cache = itemMappingCache
        /\ seenMapping[p].expiry = itemMappingExpiry
        /\ seenMapping[p].cache # seenMapping[q].cache
        /\ seenMapping[p].expiry > seenMapping[q].expiry
        /\ mapping[p] = itemMappingCache.table

\* ==================================================== freshness clock order
\* p's request is answered, in this step, with a non-empty object.
StoresEntry(p) ==
    /\ pc[p] = "awaitPlayer" /\ pc'[p] # "awaitPlayer"
    /\ resp'[p].kind = "object" /\ resp'[p].data # EmptyObject

\* C14 as stated: the fetch timestamp of a username's entry never decreases.
C14_TimestampNeverDecreases ==
    [][\A u \in DOMAIN playerDataCache :
        playerDataCache'[u].fetchedAt >= playerDataCache[u].fetchedAt]_vars

\* C14, amended: the fetch timestamp of a username's entry changes only when a
\* response is stored, to the start time of the call that issued the request;
\* it is never older than the timestamp of the entry that call found when it
\* started, and it is older than the timestamp it replaces only when the entry
\* was replaced while the call was in flight.
C14_TimestampIsCallStart ==
    /\ [][\A p \in Procs :
            StoresEntry(p) =>
              LET u == username[p] IN
              /\ playerDataCache'[u].fetchedAt = callNow[p]
              /\ u \in DOMAIN seen[p] =>
                    playerDataCache'[u].fetchedAt >= seen[p][u].fetchedAt
              /\ (u \in DOMAIN playerDataCache
                    /\ playerDataCache'[u].fetchedAt < playerDataCache[u].fetchedAt) =>
                    (u \notin DOMAIN seen[p] \/ seen[p][u] # playerDataCache[u])]_vars
    /\ [][\A u \in DOMAIN playerDataCache :
            playerDataCache'[u].fetchedAt # playerDataCache[u].fetchedAt =>
                \E p \in Procs : StoresEntry(p) /\ username[p] = u]_vars

\* Two calls for one username overlapped; the one that started later stored its
\* response first, and the entry now carries the payload and the earlier start
\* time of the other.
C14_Witness ==
    \E p \in Procs, q \in Procs :
        /\ p # q
        /\ InPlayerFetch(p) /\ pc[p] = "done" /\ InPlayerFetch(q) /\ pc[q] = "done"
        /\ username[p] = username[q]
        /\ resp[p].kind = "object" /\ resp[p].data # EmptyObject
        /\ resp[q].kind = "object" /\ resp[q].data # EmptyObject
        /\ callNow[p] < callNow[q]
        /\ playerDataCache[username[p]] = [data |-> resp[p].data, fetchedAt |-> callNow[p]]
        /\ now - callNow[p] >= 60 * 60 * 1000

\* ========================================================== failed refresh
\* The mapping fetch of p fails in this step.
MappingFetchFails(p) ==
    /\ pc[p] \in {"awaitMapping", "awaitMapping2"}
    /\ pc'[p] # pc[p]
    /\ resp'[p].kind \in {"status", "error"}
\* The invocation of p ended with its mapping fetch failed.
MappingFetchFailed(p) ==
    /\ op[p] = "price" /\ pc[p] = "threw"
    /\ (lookups[p] = 1 /\ ~itemId[p].found) \/ lookups[p] = 2

\* C15: when a mapping fetch fails with a non-success status or a transport
\* error, the step leaves the cached table and its expiry as they were and the
\* call returns no table (it throws, the expired table is not handed out); and
\* a call made next, with the cache as the failed call found it, issues a new
\* fetch.
C15_FailedRefreshLeavesCache ==
    /\ [][\A p \in Procs :
            MappingFetchFails(p) =>
              /\ itemMappingCache' = itemMappingCache
              /\ itemMappingExpiry' = itemMappingExpiry
              /\ pc'[p] = "threw"
              /\ mapping'[p] = mapping[p]
              /\ result'[p] = NoResult]_vars
    /\ [][\A p \in Procs, q \in Procs :
            (MappingFetchFailed(p) /\ StartsLookup(q)
                /\ Snapshot(itemMappingCache, itemMappingExpiry) = seenMapping[p]) =>
              /\ fetches'[q] = fetches[q] + 1
              /\ InFlight(q)']_vars

\* A call found a table that had expired and its fetch failed; the cache still
\* holds that table and expiry, and another call, which found the same, is
\* fetching.
C15_Witness ==
    \E p \in Procs, q \in Procs :
        /\ MappingFetchFailed(p)
        /\ seenMapping[p].taken /\ ~seenMapping[p].cache.null
        /\ lookupAt[p] >= seenMapping[p].expiry
        /\ Snapshot(itemMappingCache, itemMappingExpiry) = seenMapping[p]
        /\ InFlight(q) /\ fetches[q] = 1
        /\ seenMapping[q] = seenMapping[p]

====
